---------------------------- MODULE Spec2Model ----------------------------
(***************************************************************************)
(* A model of janitor.functions.currency_column_to_numeric and its private *)
(* helpers, and of reorder_columns, filter_date, add_column and            *)
(* limit_column_characters (src/janitor/functions.py).                     *)
(*                                                                         *)
(* A Python str is a sequence of one-character strings.  A Python number   *)
(* is an exact decimal m * 10^(-e), kept normalised (no trailing zero in   *)
(* the fraction), so that equality of two numbers is equality of records.  *)
(* A table is a sequence of rows; every row carries its index label, the   *)
(* cell of the target column "a" and the cell of one other column.         *)
(***************************************************************************)
EXTENDS Integers, Sequences, FiniteSets, TLC

VARIABLES
    caller_df,              \* the table object the caller passed in
    col_name,               \* argument col_name
    type,                   \* argument type
    cast_non_numeric,       \* argument cast_non_numeric
    fill_all_non_numeric,   \* argument fill_all_non_numeric
    remove_non_numeric,     \* argument remove_non_numeric
    df,                     \* the local name df of the running call
    column_series,          \* the local name column_series
    pc,                     \* the statement the call is about to execute
    result,                 \* what the call returned or raised
    input,                  \* the caller's table as it was when the call began
    frame,                  \* the table a call of another function works on
    call,                   \* that call: the function and its arguments
    returned                \* what that call returned or raised

\* the variables of the calls of the other functions
others == <<frame, call, returned>>

args == <<col_name, type, cast_non_numeric, fill_all_non_numeric,
          remove_non_numeric>>
vars == <<caller_df, col_name, type, cast_non_numeric, fill_all_non_numeric,
          remove_non_numeric, df, column_series, pc, result, input,
          frame, call, returned>>

----------------------------------------------------------------------------
(* Bounds of the model.                                                    *)

\* longest enumerated cell text
MaxLen == 3
\* most rows of an enumerated table
MaxRows == 2

----------------------------------------------------------------------------
(* Python values.                                                          *)

PyStr(s) == [t |-> "str", s |-> s, m |-> 0, e |-> 0]
PyInt(n) == [t |-> "int", s |-> <<>>, m |-> n, e |-> 0]
PyFloat(m, e) == [t |-> "float", s |-> <<>>, m |-> m, e |-> e]
PyNone == [t |-> "NoneType", s |-> <<>>, m |-> 0, e |-> 0]
\* float("nan"), the missing-value marker of a numeric column
NaN == [t |-> "nan", s |-> <<>>, m |-> 0, e |-> 0]
PyList(items) == [t |-> "list", s |-> items, m |-> 0, e |-> 0]
PyDict(d) == [t |-> "dict", d |-> d]

\* isinstance(v, int), isinstance(v, float), isinstance(v, str)
IsInt(v) == v.t = "int"
IsFloat(v) == v.t \in {"float", "nan"}
IsStr(v) == v.t = "str"

\* bool(v): the truth value Python's "if v:" tests
Truthy(v) ==
    CASE v.t = "NoneType" -> FALSE
      [] v.t = "dict" -> DOMAIN v.d # {}
      [] v.t \in {"str", "list"} -> Len(v.s) > 0
      [] v.t = "int" -> v.m # 0
      [] v.t = "float" -> v.m # 0
      [] v.t = "nan" -> TRUE

\* the type name isinstance tests against
TypeName(v) == IF v.t = "nan" THEN "float" ELSE v.t

\* what a statement evaluates to when it raises: the exception class and
\* what its message cites
Raise(exc, cites) == [t |-> "raise", exc |-> exc, cites |-> cites]
Raised(v) == v.t = "raise"

----------------------------------------------------------------------------
(* Decimal numerals.                                                       *)

Digits == {"0", "1", "2", "3", "4", "5", "6", "7", "8", "9"}

DigitValue(c) ==
    CASE c = "0" -> 0 [] c = "1" -> 1 [] c = "2" -> 2 [] c = "3" -> 3
      [] c = "4" -> 4 [] c = "5" -> 5 [] c = "6" -> 6 [] c = "7" -> 7
      [] c = "8" -> 8 [] c = "9" -> 9

\* the characters of s that are in keep, in their order
RECURSIVE Keep(_, _)
Keep(s, keep) ==
    IF s = <<>> THEN <<>>
    ELSE IF Head(s) \in keep THEN <<Head(s)>> \o Keep(Tail(s), keep)
    ELSE Keep(Tail(s), keep)

\* the integer a string of digits writes
RECURSIVE DigitsValue(_)
DigitsValue(s) ==
    IF s = <<>> THEN 0
    ELSE 10 * DigitsValue(SubSeq(s, 1, Len(s) - 1)) + DigitValue(s[Len(s)])

\* the decimal m * 10^(-e) without trailing zeros in its fraction
RECURSIVE Normal(_, _)
Normal(m, e) ==
    IF e > 0 /\ m % 10 = 0 THEN Normal(m \div 10, e - 1) ELSE PyFloat(m, e)

\* the position of the first "." of s, or 0
RECURSIVE DotAt(_, _)
DotAt(s, i) ==
    IF i > Len(s) THEN 0 ELSE IF s[i] = "." THEN i ELSE DotAt(s, i + 1)

\* s is [-] digits [. digits] with at least one digit: what float() and
\* the numeric parser accept over the characters 0-9, "-" and "."
IsNumeral(s) ==
    LET body == IF s # <<>> /\ Head(s) = "-" THEN Tail(s) ELSE s
    IN  /\ \A i \in 1..Len(body) : body[i] \in Digits \cup {"."}
        /\ Len(Keep(body, {"."})) <= 1
        /\ Len(Keep(body, Digits)) >= 1

\* the number a numeral writes
NumeralValue(s) ==
    LET neg == s # <<>> /\ Head(s) = "-"
        body == IF neg THEN Tail(s) ELSE s
        dot == DotAt(body, 1)
        e == IF dot = 0 THEN 0 ELSE Len(body) - dot
        m == DigitsValue(Keep(body, Digits))
    IN  Normal(IF neg THEN 0 - m ELSE m, e)

\* str.strip(): s without its leading and trailing blanks
RECURSIVE strip(_)
strip(s) ==
    IF s = <<>> THEN s
    ELSE IF Head(s) = " " THEN strip(Tail(s))
    ELSE IF s[Len(s)] = " " THEN strip(SubSeq(s, 1, Len(s) - 1))
    ELSE s

\* str.replace(old, new) for a one-character old; new is a string
RECURSIVE replace(_, _, _)
replace(s, old, new) ==
    IF s = <<>> THEN <<>>
    ELSE (IF Head(s) = old THEN new ELSE <<Head(s)>>)
         \o replace(Tail(s), old, new)

\* float(y) of a str y: blanks around y are ignored, anything that is not
\* a numeral raises ValueError
float(y) ==
    IF IsNumeral(strip(y)) THEN NumeralValue(strip(y))
    ELSE Raise("ValueError", y)

\* the number a Python int or float holds, as the float a numeric column
\* stores
AsFloat(v) == Normal(v.m, v.e)

----------------------------------------------------------------------------
(* The helpers of currency_column_to_numeric.                              *)

\* check(varname, value, expected_types): None, or TypeError citing varname
check(varname, value, expected_types) ==
    IF TypeName(value) \in expected_types THEN PyNone
    ELSE Raise("TypeError", varname)

\* _clean_accounting_column without its test for the lone "-"
_clean_accounting_column_without_dash(x) ==
    IF ~IsStr(x) THEN Raise("AttributeError", <<"strip">>)
    ELSE float(replace(replace(replace(strip(x.s), ",", <<>>), ")", <<>>),
                       "(", <<"-">>))

\* _clean_accounting_column dropping "(" as it drops ")"
_clean_accounting_column_unsigned(x) ==
    IF ~IsStr(x) THEN Raise("AttributeError", <<"strip">>)
    ELSE LET y1 == strip(x.s)
             y2 == replace(y1, ",", <<>>)
             y3 == replace(y2, ")", <<>>)
             y4 == replace(y3, "(", <<>>)
         IN  IF y4 = <<"-">> THEN PyFloat(0, 0) ELSE float(y4)

\* _clean_accounting_column(x); a cell that is no str has no strip()
_clean_accounting_column(x) ==
    IF ~IsStr(x) THEN Raise("AttributeError", <<"strip">>)
    ELSE LET y1 == strip(x.s)
             y2 == replace(y1, ",", <<>>)
             y3 == replace(y2, ")", <<>>)
             y4 == replace(y3, "(", <<"-">>)
         IN  IF y4 = <<"-">> THEN PyFloat(0, 0) ELSE float(y4)

\* the acceptable characters with the decimal point forgotten
acceptable_currency_characters_without_point ==
    {"-", "1", "2", "3", "4", "5", "6", "7", "8", "9", "0"}

acceptable_currency_characters ==
    {"-", ".", "1", "2", "3", "4", "5", "6", "7", "8", "9", "0"}

ORIGINAL_NA == <<"O", "R", "I", "G", "I", "N", "A", "L", "_", "N", "A">>

\* the filter with the sign dropped as well
FilterCurrencyCharacters_unsigned(x) ==
    Keep(x, acceptable_currency_characters \ {"-"})

\* the cell text joined back without filtering
FilterCurrencyCharacters_everything(x) == Keep(x, {x[i] : i \in 1..Len(x)})

\* "".join(i for i in x if i in acceptable_currency_characters)
FilterCurrencyCharacters(x) == Keep(x, acceptable_currency_characters)

\* _currency_column_to_numeric with the mapping consulted before the test
\* for the empty string
_currency_column_to_numeric_cast_first(x, cast) ==
    IF ~IsStr(x) THEN Raise("TypeError", <<"len">>)
    ELSE IF Truthy(cast) /\ cast.t = "dict" /\ x.s \in DOMAIN cast.d
    THEN cast.d[x.s]
    ELSE IF Len(x.s) = 0 THEN PyStr(ORIGINAL_NA)
    ELSE PyStr(Keep(x.s, {"-", ".", "1", "2", "3", "4", "5", "6", "7", "8",
                          "9", "0"}))

\* _currency_column_to_numeric(x, cast_non_numeric); len() of a cell that
\* is no str raises TypeError, and only a dict has keys()
_currency_column_to_numeric(x, cast) ==
    IF ~IsStr(x) THEN Raise("TypeError", <<"len">>)
    ELSE IF Len(x.s) = 0 THEN PyStr(ORIGINAL_NA)
    ELSE IF Truthy(cast)
    THEN IF cast.t # "dict" THEN Raise("AttributeError", <<"keys">>)
         ELSE IF x.s \in DOMAIN cast.d
         THEN IF Raised(check(x.s, cast.d[x.s], {"int", "float"}))
              THEN check(x.s, cast.d[x.s], {"int", "float"})
              ELSE cast.d[x.s]
         ELSE PyStr(FilterCurrencyCharacters(x.s))
    ELSE PyStr(FilterCurrencyCharacters(x.s))

\* _replace_empty_string_with_none(x)
_replace_empty_string_with_none(x) ==
    IF IsInt(x) THEN x
    ELSE IF IsFloat(x) THEN x
    ELSE IF Len(x.s) > 0 THEN x
    ELSE PyNone

\* _replace_original_empty_string_with_none(x)
_replace_original_empty_string_with_none(x) ==
    IF x # PyStr(ORIGINAL_NA) THEN x ELSE PyNone

----------------------------------------------------------------------------
(* The table library: a Series is a sequence of [label, v].                *)

\* Series.apply(f) once f has been evaluated on every cell: the first
\* exception f raised, in row order, or the new Series
FirstRaised(series) ==
    LET bad == {i \in 1..Len(series) : Raised(series[i].v)}
    IN  IF bad = {} THEN PyNone
        ELSE series[CHOOSE i \in bad : \A j \in bad : i <= j].v

\* df[col_name] of a table that has the column
Column(table) ==
    [i \in 1..Len(table) |-> [label |-> table[i].label, v |-> table[i].a]]

\* the value a Series holds at a label
At(series, label) ==
    series[CHOOSE i \in 1..Len(series) : series[i].label = label].v

\* the mask taken on missing values: originally empty cells drop out too
NotEmptyNorOriginal(series) ==
    {series[i].label :
        i \in {j \in 1..Len(series) :
                  series[j].v \notin {PyStr(<<>>), PyStr(ORIGINAL_NA)}}}

\* column_series != "": the labels at which the mask is True
NotEmptyString(series) ==
    {series[i].label : i \in {j \in 1..Len(series) : series[j].v # PyStr(<<>>)}}

\* the selection with the index reset: the kept rows are renumbered 0, 1, ...
LocRelabelled(table, keep) ==
    LET kept == SelectSeq(table, LAMBDA r : r.label \in keep)
    IN  [i \in 1..Len(kept) |-> [kept[i] EXCEPT !.label = i - 1]]

\* df.loc[mask, :]: the rows whose label the mask keeps, in their order
Loc(table, keep) == SelectSeq(table, LAMBDA r : r.label \in keep)

\* Series.fillna(value): None and NaN are the missing values
fillna(series, value) ==
    [i \in 1..Len(series) |->
        [label |-> series[i].label,
         v |-> IF series[i].v \in {PyNone, NaN} THEN value ELSE series[i].v]]

\* pd.to_numeric with errors="coerce": what does not parse is missing
to_numeric_coerce(v) ==
    IF IsInt(v) \/ v.t = "float" THEN AsFloat(v)
    ELSE IF v \in {PyNone, NaN} THEN NaN
    ELSE IF IsNumeral(v.s) THEN NumeralValue(v.s)
    ELSE NaN

\* pd.to_numeric of one cell (errors="raise"): a number stays, None and the
\* empty str are missing, any other str is parsed or raises ValueError
to_numeric(v) ==
    IF IsInt(v) \/ v.t = "float" THEN AsFloat(v)
    ELSE IF v \in {PyNone, NaN} THEN NaN
    ELSE IF v.s = <<>> THEN NaN
    ELSE IF IsNumeral(v.s) THEN NumeralValue(v.s)
    ELSE Raise("ValueError", v.s)

\* the column set by position, whatever the labels are
AssignByPosition(table, series) ==
    [i \in 1..Len(table) |-> [table[i] EXCEPT !.a = series[i].v]]

\* the values written to every column of the table
AssignEveryColumn(table, series) ==
    [i \in 1..Len(table) |->
        [table[i] EXCEPT !.a = At(series, table[i].label),
                         !.other = At(series, table[i].label)]]

\* df.assign(a=series) and df.loc[:, "a"] = series: the column is set by
\* index label
Assign(table, series) ==
    [i \in 1..Len(table) |->
        [table[i] EXCEPT !.a = At(series, table[i].label)]]

\* what the call gives back
Pending == [t |-> "pending"]
Returned(table) == [t |-> "DataFrame", rows |-> table]

----------------------------------------------------------------------------
(* The inputs.                                                             *)

\* the characters enumerated cell texts are made of: two digits, the sign,
\* the point, a currency symbol, the thousands separator, the parentheses
\* of accounting notation and the blank
Alphabet == {"1", "2", "-", ".", "$", ",", "(", ")", " "}

\* every text of at most n characters of the alphabet
Texts(n) == UNION {[1..k -> Alphabet] : k \in 0..n}

REPAY == <<"R", "E", "P", "A", "Y">>
OtherAccount ==
    <<"O", "t", "h", "e", "r", " ", "A", "c", "c", "o", "u", "n", "t">>
MinusDollar1 == <<"-", "$", "1", ".", "0", "0">>
Dollar23 == <<"$", "2", "3", ".", "0", "0">>
Dollar1 == <<"$", "1", ".", "0", "0">>
ParenDollar250 == <<"(", "$", "2", ".", "5", "0", ")">>
Paren1250 == <<"(", "1", "2", ".", "5", "0", ")">>
Thousands == <<"1", ",", "2", "3", "4", ".", "5", "6">>

\* the table of a column: default labels 0, 1, ..., and the docstring's
\* "decorated-elephant" column [1, 2, 3] * 3 beside the target column
Table(cells) ==
    [i \in 1..Len(cells) |->
        [label |-> i - 1, a |-> cells[i], other |-> PyInt(((i - 1) % 3) + 1)]]

\* column "a" of the docstring's example setup
DocColumn ==
    <<PyStr(MinusDollar1), PyStr(<<>>), PyStr(REPAY),
      PyStr(MinusDollar1), PyStr(<<>>), PyStr(REPAY),
      PyStr(Dollar23), PyStr(<<>>), PyStr(OtherAccount)>>

\* the column of the specification's end-to-end scenarios
ScenarioColumn ==
    <<PyStr(MinusDollar1), PyStr(<<>>), PyStr(REPAY),
      PyStr(Dollar23), PyStr(<<>>), PyStr(OtherAccount)>>

AccountingColumn == <<PyStr(Dollar1), PyStr(ParenDollar250), PyStr(<<"-">>)>>

AccountingPlainColumn ==
    <<PyStr(Paren1250), PyStr(<<"-">>), PyStr(Thousands)>>

\* a column that is already numeric
NumericColumn == <<PyFloat(-1, 0), NaN, PyFloat(23, 0)>>

\* a column with a raw cell whose text is the sentinel's
SentinelColumn == <<PyStr(ORIGINAL_NA), PyStr(<<>>), PyStr(MinusDollar1)>>

\* the cells the enumerated tables are made of
ExampleCells ==
    {PyStr(MinusDollar1), PyStr(<<>>), PyStr(REPAY), PyStr(OtherAccount),
     PyStr(<<"-">>), PyFloat(-1, 0)}

ExampleColumns == UNION {[1..k -> ExampleCells] : k \in 0..MaxRows}

FixedColumns ==
    {DocColumn, ScenarioColumn, AccountingColumn, AccountingPlainColumn,
     NumericColumn, SentinelColumn}

Types == {"None", "accounting"}

\* cast_non_numeric: unset, mappings to numbers (one with the empty string
\* and a parseable text as keys, one to float("nan")), the empty mapping,
\* mappings with a value that is no number (a str, the sentinel's text, None),
\* and values that are no mapping (falsy and truthy)
Casts ==
    {PyNone,
     PyDict([k \in {REPAY} |-> PyInt(22)]),
     PyDict([k \in {REPAY} |-> NaN]),
     PyDict([k \in {<<>>, MinusDollar1, OtherAccount} |->
                IF k = <<>> THEN PyInt(5)
                ELSE IF k = MinusDollar1 THEN PyInt(7) ELSE PyFloat(25, 1)]),
     PyDict([k \in {} |-> PyNone]),
     PyDict([k \in {REPAY} |-> PyStr(<<"x">>)]),
     PyDict([k \in {REPAY} |-> PyStr(ORIGINAL_NA)]),
     PyDict([k \in {Dollar23} |-> PyNone]),
     PyList(<<>>),
     PyList(<<REPAY>>)}

\* the mappings tried on the enumerated texts
TextCasts ==
    {PyNone,
     PyDict([k \in {<<>>, <<"$">>, <<"$", "1">>} |->
                IF k = <<>> THEN PyInt(5)
                ELSE IF k = <<"$">> THEN PyInt(22) ELSE PyFloat(25, 1)])}

\* fill_all_non_numeric: unset, numbers (zero among them), and a str
Fills == {PyNone, PyInt(0), PyInt(35), PyFloat(25, 1), PyStr(<<"x">>)}
TextFills == {PyNone, PyInt(0)}

TargetColumn == PyStr(<<"a">>)
\* a name that is no column of the table, and a name that is no str
BadColumnNames == {PyStr(<<"z">>), PyInt(5)}

\* no other function is being called
NoCall == [fn |-> "none"]
NoFrame == [t |-> "NoneType"]

\* the state in which a call with these arguments begins
Begin(table, name, ty, cast, fill, remove) ==
    /\ frame = NoFrame
    /\ call = NoCall
    /\ returned = Pending
    /\ caller_df = table
    /\ input = table
    /\ df = table
    /\ col_name = name
    /\ type = ty
    /\ cast_non_numeric = cast
    /\ fill_all_non_numeric = fill
    /\ remove_non_numeric = remove
    /\ column_series = <<>>
    /\ pc = "check_col_name"
    /\ result = Pending

\* one-row tables over every enumerated text
InitTexts ==
    \E s \in Texts(MaxLen), ty \in Types, cast \in TextCasts,
       fill \in TextFills, remove \in BOOLEAN :
        Begin(Table(<<PyStr(s)>>), TargetColumn, ty, cast, fill, remove)

\* the example tables under every configuration
InitTables ==
    \E cells \in ExampleColumns \cup FixedColumns, ty \in Types,
       cast \in Casts, fill \in Fills, remove \in BOOLEAN :
        Begin(Table(cells), TargetColumn, ty, cast, fill, remove)

\* calls that name no column of the table
InitBadColumn ==
    \E name \in BadColumnNames, ty \in Types, cast \in Casts,
       fill \in Fills, remove \in BOOLEAN :
        Begin(Table(ScenarioColumn), name, ty, cast, fill, remove)

Init == InitTexts \/ InitTables \/ InitBadColumn

----------------------------------------------------------------------------
(* currency_column_to_numeric, statement by statement.                     *)

\* the call ends by raising e: nothing is returned
Fail(e) ==
    /\ result' = e
    /\ pc' = "done"

\* Series.apply(f) on column_series, given the cells f produced
ApplyTo(series, next) ==
    IF Raised(FirstRaised(series))
    THEN Fail(FirstRaised(series)) /\ UNCHANGED column_series
    ELSE column_series' = series /\ pc' = next /\ UNCHANGED result

\* check("col_name", col_name, [str])
CheckColName ==
    /\ pc = "check_col_name"
    /\ IF Raised(check(<<"col_name">>, col_name, {"str"}))
       THEN Fail(check(<<"col_name">>, col_name, {"str"}))
       ELSE pc' = "get_column" /\ UNCHANGED result
    /\ UNCHANGED <<others, caller_df, args, df, column_series, input>>

\* the lookup without its failure for a name that is no column
GetColumnUnchecked ==
    /\ pc = "get_column"
    /\ column_series' = Column(df)
    /\ pc' = "type_branch"
    /\ UNCHANGED <<others, caller_df, args, df, result, input>>

\* column_series = df[col_name]
GetColumn ==
    /\ pc = "get_column"
    /\ IF col_name # TargetColumn
       THEN Fail(Raise("KeyError", col_name.s)) /\ UNCHANGED column_series
       ELSE /\ column_series' = Column(df)
            /\ pc' = "type_branch"
            /\ UNCHANGED result
    /\ UNCHANGED <<others, caller_df, args, df, input>>

\* the accounting branch writing the caller's table cell by cell: the
\* cells before the first one that does not clean are already replaced
AccountingBranchCellByCell ==
    /\ pc = "type_branch"
    /\ type = "accounting"
    /\ LET cleaned ==
               [i \in 1..Len(df) |->
                   [label |-> df[i].label,
                    v |-> _clean_accounting_column(df[i].a)]]
           bad == {i \in 1..Len(df) : Raised(cleaned[i].v)}
           first == IF bad = {} THEN Len(df) + 1
                    ELSE CHOOSE i \in bad : \A j \in bad : i <= j
           written ==
               [i \in 1..Len(df) |->
                   IF i < first THEN [df[i] EXCEPT !.a = cleaned[i].v]
                   ELSE df[i]]
       IN  /\ caller_df' = written
           /\ df' = written
           /\ pc' = "done"
           /\ result' = IF bad = {} THEN Returned(written)
                         ELSE cleaned[first].v
    /\ UNCHANGED <<others, args, column_series, input>>

\* the accounting branch taken only after cast_non_numeric was validated
AccountingBranchAfterCheck ==
    /\ pc = "type_branch"
    /\ type = "accounting"
    /\ LET cleaned ==
               [i \in 1..Len(df) |->
                   [label |-> df[i].label,
                    v |-> _clean_accounting_column(df[i].a)]]
       IN  IF /\ Truthy(cast_non_numeric)
              /\ Raised(check(<<"cast_non_numeric">>, cast_non_numeric,
                              {"dict"}))
           THEN /\ Fail(check(<<"cast_non_numeric">>, cast_non_numeric,
                              {"dict"}))
                /\ UNCHANGED <<caller_df, df>>
           ELSE IF Raised(FirstRaised(cleaned))
           THEN Fail(FirstRaised(cleaned)) /\ UNCHANGED <<caller_df, df>>
           ELSE /\ caller_df' = Assign(caller_df, cleaned)
                /\ df' = Assign(caller_df, cleaned)
                /\ result' = Returned(Assign(caller_df, cleaned))
                /\ pc' = "done"
    /\ UNCHANGED <<others, args, column_series, input>>

\* if type == "accounting": the column of the caller's table is set in
\* place to the cleaned cells and that table is returned
AccountingBranch ==
    /\ pc = "type_branch"
    /\ type = "accounting"
    /\ LET cleaned ==
               [i \in 1..Len(df) |->
                   [label |-> df[i].label,
                    v |-> _clean_accounting_column(df[i].a)]]
       IN  IF Raised(FirstRaised(cleaned))
           THEN Fail(FirstRaised(cleaned)) /\ UNCHANGED <<caller_df, df>>
           ELSE /\ caller_df' = Assign(caller_df, cleaned)
                /\ df' = Assign(caller_df, cleaned)
                /\ result' = Returned(Assign(caller_df, cleaned))
                /\ pc' = "done"
    /\ UNCHANGED <<others, args, column_series, input>>

\* if cast_non_numeric: check("cast_non_numeric", cast_non_numeric, [dict])
CheckCast ==
    /\ pc = "type_branch"
    /\ type # "accounting"
    /\ IF /\ Truthy(cast_non_numeric)
          /\ Raised(check(<<"cast_non_numeric">>, cast_non_numeric, {"dict"}))
       THEN Fail(check(<<"cast_non_numeric">>, cast_non_numeric, {"dict"}))
       ELSE pc' = "apply_cells" /\ UNCHANGED result
    /\ UNCHANGED <<others, caller_df, args, df, column_series, input>>

\* column_series = column_series.apply(_make_cc_patrial)
ApplyCells ==
    /\ pc = "apply_cells"
    /\ ApplyTo([i \in 1..Len(column_series) |->
                   [label |-> column_series[i].label,
                    v |-> _currency_column_to_numeric(column_series[i].v,
                                                      cast_non_numeric)]],
               "remove_rows")
    /\ UNCHANGED <<others, caller_df, args, df, input>>

\* if remove_non_numeric: df = df.loc[column_series != "", :]
RemoveRows ==
    /\ pc = "remove_rows"
    /\ df' = IF remove_non_numeric
             THEN Loc(df, NotEmptyString(column_series))
             ELSE df
    /\ pc' = "replace_empty"
    /\ UNCHANGED <<others, caller_df, args, column_series, result, input>>

\* column_series = column_series.apply(_replace_empty_string_with_none)
ReplaceEmpty ==
    /\ pc = "replace_empty"
    /\ ApplyTo([i \in 1..Len(column_series) |->
                   [label |-> column_series[i].label,
                    v |-> _replace_empty_string_with_none(column_series[i].v)]],
               "fill")
    /\ UNCHANGED <<others, caller_df, args, df, input>>

\* the fill step without its type check
FillUnchecked ==
    /\ pc = "fill"
    /\ column_series' = IF fill_all_non_numeric = PyNone THEN column_series
                        ELSE fillna(column_series, fill_all_non_numeric)
    /\ pc' = "replace_original"
    /\ UNCHANGED <<others, caller_df, args, df, result, input>>

\* if fill_all_non_numeric is not None: check(...); column_series.fillna(...)
Fill ==
    /\ pc = "fill"
    /\ IF fill_all_non_numeric = PyNone
       THEN pc' = "replace_original" /\ UNCHANGED <<column_series, result>>
       ELSE IF Raised(check(<<"fill_all_non_numeric">>, fill_all_non_numeric,
                            {"int", "float"}))
       THEN /\ Fail(check(<<"fill_all_non_numeric">>, fill_all_non_numeric,
                          {"int", "float"}))
            /\ UNCHANGED column_series
       ELSE /\ column_series' = fillna(column_series, fill_all_non_numeric)
            /\ pc' = "replace_original"
            /\ UNCHANGED result
    /\ UNCHANGED <<others, caller_df, args, df, input>>

\* column_series.apply(_replace_original_empty_string_with_none)
ReplaceOriginal ==
    /\ pc = "replace_original"
    /\ ApplyTo([i \in 1..Len(column_series) |->
                   [label |-> column_series[i].label,
                    v |-> _replace_original_empty_string_with_none(
                              column_series[i].v)]],
               "assign")
    /\ UNCHANGED <<others, caller_df, args, df, input>>

\* the converted column written into the caller's table, as the accounting
\* branch does
AssignNumericInPlace ==
    /\ pc = "assign"
    /\ LET numeric ==
               [i \in 1..Len(column_series) |->
                   [label |-> column_series[i].label,
                    v |-> to_numeric(column_series[i].v)]]
       IN  IF Raised(FirstRaised(numeric))
           THEN Fail(FirstRaised(numeric)) /\ UNCHANGED <<caller_df, df>>
           ELSE /\ caller_df' = Assign(caller_df, numeric)
                /\ df' = Assign(df, numeric)
                /\ result' = Returned(Assign(df, numeric))
                /\ pc' = "done"
    /\ UNCHANGED <<others, args, column_series, input>>

\* df = df.assign(**{col_name: pd.to_numeric(column_series)}); return df
AssignNumeric ==
    /\ pc = "assign"
    /\ LET numeric ==
               [i \in 1..Len(column_series) |->
                   [label |-> column_series[i].label,
                    v |-> to_numeric(column_series[i].v)]]
       IN  IF Raised(FirstRaised(numeric))
           THEN Fail(FirstRaised(numeric)) /\ UNCHANGED df
           ELSE /\ df' = Assign(df, numeric)
                /\ result' = Returned(Assign(df, numeric))
                /\ pc' = "done"
    /\ UNCHANGED <<others, caller_df, args, column_series, input>>

Next ==
    \/ CheckColName
    \/ GetColumn
    \/ AccountingBranch
    \/ CheckCast
    \/ ApplyCells
    \/ RemoveRows
    \/ ReplaceEmpty
    \/ Fill
    \/ ReplaceOriginal
    \/ AssignNumeric

Spec == Init /\ [][Next]_vars

----------------------------------------------------------------------------
(* What the claims are stated with.                                        *)

\* the call is over
Done == pc = "done"
\* a standard-mode call on the target column is over and returned a table
StandardReturned ==
    /\ Done
    /\ type # "accounting"
    /\ result.t = "DataFrame"

\* the characters 0-9, "-" and "."
NumericCharacters == Digits \cup {"-", "."}

\* the text of a cell reduced to its numeric characters
Candidate(s) == SelectSeq(s, LAMBDA c : c \in NumericCharacters)

\* the keys of cast_non_numeric that take effect
CastKeys(cast) == IF cast.t = "dict" THEN DOMAIN cast.d ELSE {}

\* the number a mapping gives, as the numeric column stores it
Mapped(cast, s) == IF cast.d[s] = NaN THEN NaN ELSE AsFloat(cast.d[s])

\* a cell that fails to coerce: not empty, no key, no numeric character
CoercionFailure(x, cast) ==
    /\ x.s # <<>>
    /\ x.s \notin CastKeys(cast)
    /\ Candidate(x.s) = <<>>

\* the output the specification gives for one cell when nothing is filled
ExpectedCell(x, cast) ==
    IF x.s = <<>> THEN NaN
    ELSE IF x.s \in CastKeys(cast) THEN Mapped(cast, x.s)
    ELSE IF Candidate(x.s) = <<>> THEN NaN
    ELSE NumeralValue(Candidate(x.s))

\* the cells of column "a" and the labels of a table, in row order
Cells(table) == [i \in 1..Len(table) |-> table[i].a]
Labels(table) == [i \in 1..Len(table) |-> table[i].label]

\* every cell of the input is a str
AllStr == \A i \in 1..Len(input) : IsStr(input[i].a)

\* cast_non_numeric is accepted on this input: unset or falsy, or a mapping
\* whose values at the keys that occur are numbers
CastAccepted ==
    \/ ~Truthy(cast_non_numeric)
    \/ /\ cast_non_numeric.t = "dict"
       /\ \A i \in 1..Len(input) :
            input[i].a.s \in DOMAIN cast_non_numeric.d /\ input[i].a.s # <<>>
                => TypeName(cast_non_numeric.d[input[i].a.s]) \in {"int", "float"}

\* every cell that is filtered leaves nothing or a numeral
AllParse ==
    \A i \in 1..Len(input) :
        \/ input[i].a.s = <<>>
        \/ input[i].a.s \in CastKeys(cast_non_numeric)
        \/ Candidate(input[i].a.s) = <<>>
        \/ IsNumeral(Candidate(input[i].a.s))

----------------------------------------------------------------------------
(* C1..C10.                                                                *)

\* C1: in standard mode with fill_all_non_numeric unset and
\* remove_non_numeric False, a call on str cells whose candidates parse
\* returns every row, and each output cell is NaN for an empty cell, the
\* mapped number for a key of cast_non_numeric, and otherwise the number its
\* numeric characters write, or NaN when it has none; the scenario column
\* with {"REPAY": 22} gives [-1.0, NaN, 22.0, 23.0, NaN, NaN].
C1_StandardCells ==
    (/\ Done
     /\ type # "accounting"
     /\ col_name = TargetColumn
     /\ fill_all_non_numeric = PyNone
     /\ ~remove_non_numeric
     /\ AllStr /\ CastAccepted /\ AllParse)
    => /\ result.t = "DataFrame"
       /\ Labels(result.rows) = Labels(input)
       /\ \A i \in 1..Len(input) :
            result.rows[i].a = ExpectedCell(input[i].a, cast_non_numeric)
       /\ (/\ input = Table(ScenarioColumn)
           /\ cast_non_numeric = PyDict([k \in {REPAY} |-> PyInt(22)]))
          => Cells(result.rows) =
                <<PyFloat(-1, 0), NaN, PyFloat(22, 0), PyFloat(23, 0), NaN, NaN>>

C1_Witness ==
    /\ StandardReturned
    /\ fill_all_non_numeric = PyNone
    /\ ~remove_non_numeric
    /\ input = Table(ScenarioColumn)
    /\ cast_non_numeric = PyDict([k \in {REPAY} |-> PyInt(22)])
    /\ result.rows[3].a = PyFloat(22, 0)
    /\ result.rows[6].a = NaN

\* C2: in standard mode with remove_non_numeric True, the rows of the result
\* are exactly the input rows whose cell is no coercion failure, in their
\* original order and under their labels; a row whose cell was the empty
\* string is kept with NaN; of the scenario column without cast_non_numeric
\* only the "REPAY" and "Other Account" rows are removed.
C2_RemovedRows ==
    (StandardReturned /\ remove_non_numeric)
    => /\ Labels(result.rows) =
            Labels(SelectSeq(input,
                LAMBDA r : ~CoercionFailure(r.a, cast_non_numeric)))
       /\ \A i \in 1..Len(result.rows) :
            input[result.rows[i].label + 1].a = PyStr(<<>>)
                => result.rows[i].a = NaN
       /\ (input = Table(ScenarioColumn) /\ cast_non_numeric = PyNone)
          => Labels(result.rows) = <<0, 1, 3, 4>>

C2_Witness ==
    /\ StandardReturned
    /\ remove_non_numeric
    /\ input = Table(ScenarioColumn)
    /\ cast_non_numeric = PyNone
    /\ Len(result.rows) = 4
    /\ result.rows[2].a = NaN

\* C3: with type "accounting" the column ["$1.00", "($2.50)", "-"] is
\* converted to [1.00, -2.50, 0.00] and the call succeeds.
C3_AccountingCurrencySymbol ==
    (/\ Done
     /\ type = "accounting"
     /\ col_name = TargetColumn
     /\ input = Table(AccountingColumn))
    => /\ result.t = "DataFrame"
       /\ Cells(result.rows) = <<PyFloat(1, 0), PyFloat(-25, 1), PyFloat(0, 0)>>

\* the cell text is made of digits, ".", ",", parentheses and "-", with
\* blanks only around it
AccountingText(s) ==
    /\ \A i \in 1..Len(s) : s[i] \in Digits \cup {".", ",", "(", ")", "-", " "}
    /\ \A i \in 1..Len(s) :
          s[i] = " " => \/ \A j \in 1..i : s[j] = " "
                        \/ \A j \in i..Len(s) : s[j] = " "

\* the text without blanks and commas
Bare(s) == SelectSeq(s, LAMBDA c : c \notin {" ", ","})

\* the bare text with ")" dropped and "(" read as the sign
Signed(s) ==
    LET open == SelectSeq(Bare(s), LAMBDA c : c # ")")
    IN  [i \in 1..Len(open) |-> IF open[i] = "(" THEN "-" ELSE open[i]]

\* the bare text is "(n)" for an unsigned numeral n
Wrapped(s) ==
    /\ Len(Bare(s)) >= 3
    /\ Bare(s)[1] = "("
    /\ Bare(s)[Len(Bare(s))] = ")"
    /\ IsNumeral(SubSeq(Bare(s), 2, Len(Bare(s)) - 1))
    /\ Bare(s)[2] # "-"

\* the accounting value of a cell text in the forms the claim names
AccountingValue(s) ==
    IF Signed(s) = <<"-">> THEN PyFloat(0, 0) ELSE NumeralValue(Signed(s))

\* C4: with type "accounting", when every cell is made of digits, ".", ",",
\* parentheses, "-" and surrounding blanks and, blanks and commas removed,
\* reduces to "-" or to a numeral once ")" is dropped and "(" read as the
\* sign, the call returns every row; a cell that reduces to "-" gives 0.0,
\* "(n)" gives -n, any other the number written; "(12.50)", "-" and
\* "1,234.56" give -12.50, 0.00 and 1234.56.
C4_AccountingNotation ==
    (/\ Done
     /\ type = "accounting"
     /\ col_name = TargetColumn
     /\ \A i \in 1..Len(input) :
            /\ IsStr(input[i].a)
            /\ AccountingText(input[i].a.s)
            /\ Signed(input[i].a.s) = <<"-">> \/ IsNumeral(Signed(input[i].a.s)))
    => /\ result.t = "DataFrame"
       /\ Labels(result.rows) = Labels(input)
       /\ \A i \in 1..Len(input) :
            /\ result.rows[i].a = AccountingValue(input[i].a.s)
            /\ Wrapped(input[i].a.s)
                => LET n == NumeralValue(SubSeq(Bare(input[i].a.s), 2,
                                                Len(Bare(input[i].a.s)) - 1))
                   IN  /\ result.rows[i].a.m = 0 - n.m
                       /\ result.rows[i].a.e = n.e
       /\ input = Table(AccountingPlainColumn)
          => Cells(result.rows) =
                <<PyFloat(-125, 1), PyFloat(0, 0), PyFloat(123456, 2)>>

C4_Witness ==
    /\ Done
    /\ type = "accounting"
    /\ input = Table(AccountingPlainColumn)
    /\ result.t = "DataFrame"
    /\ result.rows[1].a = PyFloat(-125, 1)
    /\ result.rows[3].a = PyFloat(123456, 2)

\* the cell text is made of digits, "-", ".", the currency symbol and ","
CurrencyText(s) ==
    \A i \in 1..Len(s) : s[i] \in Digits \cup {"-", ".", "$", ","}

\* the text without currency symbols and commas
WithoutSymbols(s) == SelectSeq(s, LAMBDA c : c \notin {"$", ","})

\* C5: in standard mode without cast_non_numeric, fill or removal, when
\* every cell is made of digits, "-", ".", currency symbols and commas and
\* writes a numeral once the symbols and commas are removed, the call
\* returns every row and each output is the number that numeral writes.
C5_SymbolsStripped ==
    (/\ Done
     /\ type # "accounting"
     /\ col_name = TargetColumn
     /\ cast_non_numeric = PyNone
     /\ fill_all_non_numeric = PyNone
     /\ ~remove_non_numeric
     /\ \A i \in 1..Len(input) :
            /\ IsStr(input[i].a)
            /\ CurrencyText(input[i].a.s)
            /\ IsNumeral(WithoutSymbols(input[i].a.s)))
    => /\ result.t = "DataFrame"
       /\ Labels(result.rows) = Labels(input)
       /\ \A i \in 1..Len(input) :
            result.rows[i].a = NumeralValue(WithoutSymbols(input[i].a.s))

C5_Witness ==
    /\ StandardReturned
    /\ cast_non_numeric = PyNone
    /\ fill_all_non_numeric = PyNone
    /\ ~remove_non_numeric
    /\ input = Table(<<PyStr(<<"$", "2", ".">>)>>)
    /\ result.rows[1].a = PyFloat(2, 0)

\* the row of a table under a label, as a set (empty when it was removed)
RowsAt(table, label) == {i \in 1..Len(table) : table[i].label = label}

\* C6: in standard mode every non-empty cell whose text is exactly a key of
\* cast_non_numeric is kept and its output is the mapped number, whatever
\* fill_all_non_numeric and remove_non_numeric are.
C6_CastPrecedence ==
    StandardReturned
    => \A i \in 1..Len(input) :
          (input[i].a.s # <<>> /\ input[i].a.s \in CastKeys(cast_non_numeric))
          => /\ RowsAt(result.rows, input[i].label) # {}
             /\ \A j \in RowsAt(result.rows, input[i].label) :
                   result.rows[j].a = Mapped(cast_non_numeric, input[i].a.s)

\* C7: in standard mode, under every configuration, a row whose cell is
\* the empty string is kept and its output cell is NaN.
C7_EmptyStringIsNaN ==
    StandardReturned
    => \A i \in 1..Len(input) :
          input[i].a = PyStr(<<>>)
          => /\ RowsAt(result.rows, input[i].label) # {}
             /\ \A j \in RowsAt(result.rows, input[i].label) :
                   result.rows[j].a = NaN

C7_Witness ==
    /\ StandardReturned
    /\ <<>> \in CastKeys(cast_non_numeric)
    /\ fill_all_non_numeric = PyInt(35)
    /\ remove_non_numeric
    /\ \E i \in 1..Len(input) :
          /\ input[i].a = PyStr(<<>>)
          /\ \E j \in RowsAt(result.rows, input[i].label) :
                result.rows[j].a = NaN

\* C8: in standard mode with fill_all_non_numeric = v and
\* remove_non_numeric False, the output of every cell that failed to coerce
\* is v, and the output of every cell that parsed or was cast is the value
\* it has without fill.
C8_FillFailures ==
    (StandardReturned /\ fill_all_non_numeric # PyNone /\ ~remove_non_numeric)
    => \A i \in 1..Len(input) :
          /\ CoercionFailure(input[i].a, cast_non_numeric)
                => result.rows[i].a = AsFloat(fill_all_non_numeric)
          /\ (input[i].a.s # <<>> /\ ~CoercionFailure(input[i].a, cast_non_numeric))
                => result.rows[i].a = ExpectedCell(input[i].a, cast_non_numeric)

\* C9: a standard-mode call on a column whose cells are already numbers
\* succeeds and returns the same numbers.
C9_Idempotent ==
    (/\ Done
     /\ type # "accounting"
     /\ col_name = TargetColumn
     /\ CastKeys(cast_non_numeric) = {}
     /\ ~Truthy(cast_non_numeric)
     /\ TypeName(fill_all_non_numeric) \in {"NoneType", "int", "float"}
     /\ Len(input) > 0
     /\ \A i \in 1..Len(input) : input[i].a.t = "float")
    => /\ result.t = "DataFrame"
       /\ Cells(result.rows) = Cells(input)

\* the outcome of accounting mode as the input alone decides it: the first
\* cell that does not clean raises, otherwise every row is returned cleaned
AccountingOutcome(table) ==
    LET cleaned ==
            [i \in 1..Len(table) |->
                [label |-> table[i].label,
                 v |-> _clean_accounting_column(table[i].a)]]
    IN  IF Raised(FirstRaised(cleaned)) THEN FirstRaised(cleaned)
        ELSE Returned(Assign(table, cleaned))

\* C10: with type "accounting" the outcome (the table or the error) is
\* decided by the column alone, the same for every cast_non_numeric,
\* fill_all_non_numeric and remove_non_numeric, values that standard mode
\* rejects included: no row is removed, nothing is cast or filled and no
\* argument is validated.
C10_AccountingIgnoresOptions ==
    (Done /\ type = "accounting" /\ col_name = TargetColumn)
    => /\ result = AccountingOutcome(input)
       /\ result.t = "DataFrame" => Labels(result.rows) = Labels(input)
       /\ result.t = "raise" => result.exc # "TypeError"

C10_Witness ==
    /\ Done
    /\ type = "accounting"
    /\ cast_non_numeric = PyList(<<REPAY>>)
    /\ fill_all_non_numeric = PyStr(<<"x">>)
    /\ remove_non_numeric
    /\ input = Table(AccountingPlainColumn)
    /\ result.t = "DataFrame"
    /\ Len(result.rows) = 3

\* C11: empty strings are retained as NaN with type "accounting" too: a
\* column of str cells that are empty or clean to a number is converted
\* without error and every empty cell becomes NaN.
C11_AccountingEmptyString ==
    (/\ Done
     /\ type = "accounting"
     /\ col_name = TargetColumn
     /\ \A i \in 1..Len(input) :
            /\ IsStr(input[i].a)
            /\ \/ input[i].a.s = <<>>
               \/ ~Raised(_clean_accounting_column(input[i].a)))
    => /\ result.t = "DataFrame"
       /\ \A i \in 1..Len(input) :
            input[i].a.s = <<>> => result.rows[i].a = NaN

\* the keys of a mapping whose value is no int and no float
NonNumericKeys(cast) ==
    IF cast.t = "dict"
    THEN {k \in DOMAIN cast.d : TypeName(cast.d[k]) \notin {"int", "float"}}
    ELSE {}

\* C12: in standard mode, whenever cast_non_numeric maps a key to a value
\* that is no int and no float, the call fails with a TypeError that cites
\* such a key, whether or not the key occurs in the column.
C12_CastValueRejected ==
    (/\ Done
     /\ type # "accounting"
     /\ col_name = TargetColumn
     /\ AllStr
     /\ NonNumericKeys(cast_non_numeric) # {})
    => /\ result.t = "raise"
       /\ result.exc = "TypeError"
       /\ result.cites \in NonNumericKeys(cast_non_numeric)

\* C13: in standard mode, whenever cast_non_numeric is supplied and is no
\* mapping (empty or falsy values included), the call fails with a
\* TypeError.
C13_CastNotMappingRejected ==
    (/\ Done
     /\ type # "accounting"
     /\ col_name = TargetColumn
     /\ cast_non_numeric.t \notin {"NoneType", "dict"})
    => /\ result.t = "raise"
       /\ result.exc = "TypeError"

\* C14: in standard mode, whenever fill_all_non_numeric is supplied and is
\* no int and no float, the call fails with a TypeError and returns no
\* table.
C14_FillRejected ==
    (/\ Done
     /\ type # "accounting"
     /\ col_name = TargetColumn
     /\ TypeName(fill_all_non_numeric) \notin {"NoneType", "int", "float"})
    => /\ result.t = "raise"
       /\ result.exc = "TypeError"

C14_Witness ==
    /\ Done
    /\ type # "accounting"
    /\ fill_all_non_numeric = PyStr(<<"x">>)
    /\ input = Table(ScenarioColumn)
    /\ result = Raise("TypeError", <<"fill_all_non_numeric">>)

\* the error is a configuration error: a TypeError that cites
\* cast_non_numeric, one of its keys, or fill_all_non_numeric
ConfigurationError(r) ==
    /\ r.t = "raise"
    /\ r.exc = "TypeError"
    /\ r.cites \in {<<"cast_non_numeric">>, <<"fill_all_non_numeric">>}
                      \cup NonNumericKeys(cast_non_numeric)

\* C15: every configuration error of a standard-mode call is raised before
\* any cell has been processed: the step that raises it is taken before
\* the per-cell coercion and the row removal.
C15_ConfigurationErrorsFirst ==
    [][(/\ type # "accounting"
        /\ result = Pending
        /\ ConfigurationError(result'))
       => pc \in {"check_col_name", "get_column", "type_branch"}]_vars

\* C16: when col_name names no column of the table, the call fails with a
\* KeyError naming the column, in both modes, before any cell is processed,
\* and the caller's table is unchanged.
C16_MissingColumn ==
    (Done /\ IsStr(col_name) /\ col_name # TargetColumn)
    => /\ result = Raise("KeyError", col_name.s)
       /\ column_series = <<>>
       /\ df = input
       /\ caller_df = input

C16_Witness ==
    /\ Done
    /\ col_name = PyStr(<<"z">>)
    /\ type = "accounting"
    /\ result = Raise("KeyError", <<"z">>)
    /\ caller_df = Table(ScenarioColumn)

\* C17: no partial result: whenever the call raises, in either mode, the
\* caller's table is cell for cell what it was before the call.
C17_NoPartialResult ==
    (Done /\ result.t = "raise") => caller_df = input

C17_Witness ==
    /\ Done
    /\ type = "accounting"
    /\ Len(input) = 2
    /\ ~Raised(_clean_accounting_column(input[1].a))
    /\ result.t = "raise"
    /\ result.exc = "ValueError"
    /\ caller_df = input

\* the cell is filtered to a candidate that is not empty and is no number
BadCandidate(x, cast) ==
    /\ IsStr(x)
    /\ x.s # <<>>
    /\ x.s \notin CastKeys(cast)
    /\ Candidate(x.s) # <<>>
    /\ ~IsNumeral(Candidate(x.s))

\* C18: in standard mode a cell whose candidate is not empty and is no
\* valid number makes the call raise, whatever the other rows,
\* fill_all_non_numeric and remove_non_numeric are: no table is returned.
C18_BadCandidateRaises ==
    (/\ Done
     /\ type # "accounting"
     /\ col_name = TargetColumn
     /\ \E i \in 1..Len(input) : BadCandidate(input[i].a, cast_non_numeric))
    => result.t = "raise"

C18_Witness ==
    /\ Done
    /\ type # "accounting"
    /\ fill_all_non_numeric = PyInt(35)
    /\ remove_non_numeric
    /\ Len(input) = 2
    /\ input[1].a = PyStr(MinusDollar1)
    /\ input[2].a = PyStr(<<"-">>)
    /\ result = Raise("ValueError", <<"-">>)

\* a row that is not in the result
Removed == [t |-> "removed"]

\* the outcome of a row as its own cell and the configuration decide it
RowOutcome(x, cast, fill, remove) ==
    IF x.s = <<>> THEN NaN
    ELSE IF x.s \in CastKeys(cast)
    THEN IF Mapped(cast, x.s) = NaN /\ fill # PyNone THEN AsFloat(fill)
         ELSE Mapped(cast, x.s)
    ELSE IF Candidate(x.s) = <<>>
    THEN IF remove THEN Removed
         ELSE IF fill # PyNone THEN AsFloat(fill) ELSE NaN
    ELSE NumeralValue(Candidate(x.s))

\* C19: no cross-row dependency: when a standard-mode call succeeds, the
\* outcome of every row (removed, or kept with its value) is the one its
\* own cell and the configuration decide, whatever the other rows hold.
C19_RowOutcomeByCell ==
    StandardReturned
    => \A i \in 1..Len(input) :
          LET out == RowOutcome(input[i].a, cast_non_numeric,
                                fill_all_non_numeric, remove_non_numeric)
              rows == RowsAt(result.rows, input[i].label)
          IN  IF out = Removed THEN rows = {}
              ELSE /\ Cardinality(rows) = 1
                   /\ \A j \in rows : result.rows[j].a = out

C19_Witness ==
    /\ StandardReturned
    /\ remove_non_numeric
    /\ Len(input) = 2
    /\ input[1].a = PyStr(OtherAccount)
    /\ input[2].a = PyStr(MinusDollar1)
    /\ Len(result.rows) = 1
    /\ result.rows[1].label = 1
    /\ result.rows[1].a = PyFloat(-1, 0)

----------------------------------------------------------------------------
(* C21..C30.                                                               *)

\* C25: after row removal in standard mode every retained row keeps its
\* original label, no label occurs twice, and its output cell is the value
\* computed from the original cell of the row under that label; of the
\* docstring's example column the rows labelled 0, 1, 3, 4, 6, 7 are kept
\* with -1.0, NaN, -1.0, NaN, 23.0, NaN.
C25_RetainedRowsKeepLabel ==
    (StandardReturned /\ remove_non_numeric)
    => /\ \A j \in 1..Len(result.rows) :
            /\ Cardinality(RowsAt(result.rows, result.rows[j].label)) = 1
            /\ \E i \in 1..Len(input) :
                  /\ input[i].label = result.rows[j].label
                  /\ result.rows[j].a =
                        RowOutcome(input[i].a, cast_non_numeric,
                                   fill_all_non_numeric, TRUE)
       /\ (/\ input = Table(DocColumn)
           /\ cast_non_numeric = PyNone)
          => /\ Labels(result.rows) = <<0, 1, 3, 4, 6, 7>>
             /\ Cells(result.rows) =
                   <<PyFloat(-1, 0), NaN, PyFloat(-1, 0), NaN,
                     PyFloat(23, 0), NaN>>

C25_Witness ==
    /\ StandardReturned
    /\ remove_non_numeric
    /\ input = Table(DocColumn)
    /\ cast_non_numeric = PyNone
    /\ Len(result.rows) = 6
    /\ result.rows[5].label = 6
    /\ result.rows[5].a = PyFloat(23, 0)

\* C26: a successful standard-mode call leaves the caller's table as it was
\* when the call began (same rows, same labels, the target column still
\* holding the original cells), also when remove_non_numeric is True; the
\* converted table is the returned value, not the caller's table.
C26_CallerTableUnchanged ==
    StandardReturned
    => /\ caller_df = input
       /\ Len(caller_df) = Len(input)
       /\ Cells(caller_df) = Cells(input)
       /\ Labels(caller_df) = Labels(input)

C26_Witness ==
    /\ StandardReturned
    /\ remove_non_numeric
    /\ input = Table(ScenarioColumn)
    /\ caller_df = Table(ScenarioColumn)
    /\ Len(result.rows) < Len(caller_df)
    /\ result.rows[1].a = PyFloat(-1, 0)
    /\ caller_df[1].a = PyStr(MinusDollar1)

\* C27: after the per-cell step of standard mode a cell carries the
\* sentinel "ORIGINAL_NA" if and only if the original cell was the empty
\* string; and when the call returns, a raw cell whose text is
\* "ORIGINAL_NA" (and is no key of cast_non_numeric) has been removed under
\* remove_non_numeric, filled under fill_all_non_numeric, and is NaN
\* otherwise.
C27_SentinelOnlyForEmpty ==
    /\ (type # "accounting" /\ pc = "remove_rows")
       => /\ Len(column_series) = Len(input)
          /\ \A i \in 1..Len(input) :
                column_series[i].v = PyStr(ORIGINAL_NA)
                    <=> input[i].a = PyStr(<<>>)
    /\ StandardReturned
       => \A i \in 1..Len(input) :
             (input[i].a = PyStr(ORIGINAL_NA)
              /\ ORIGINAL_NA \notin CastKeys(cast_non_numeric))
             => IF remove_non_numeric
                THEN RowsAt(result.rows, input[i].label) = {}
                ELSE \A j \in RowsAt(result.rows, input[i].label) :
                        result.rows[j].a =
                            IF fill_all_non_numeric # PyNone
                            THEN AsFloat(fill_all_non_numeric) ELSE NaN

C27_Witness ==
    /\ type # "accounting"
    /\ pc = "remove_rows"
    /\ input = Table(SentinelColumn)
    /\ cast_non_numeric = PyDict([k \in {REPAY} |-> PyInt(22)])
    /\ column_series[1].v = PyStr(<<>>)
    /\ column_series[2].v = PyStr(ORIGINAL_NA)

\* C28: in standard mode with remove_non_numeric True the result is the
\* same for every numeric fill_all_non_numeric and for fill_all_non_numeric
\* unset: the rows and cells returned are those of the call without fill.
C28_FillUnseenWhenRemoving ==
    (/\ StandardReturned
     /\ remove_non_numeric
     /\ TypeName(fill_all_non_numeric) \in {"NoneType", "int", "float"})
    => \A i \in 1..Len(input) :
          LET out == RowOutcome(input[i].a, cast_non_numeric, PyNone, TRUE)
              rows == RowsAt(result.rows, input[i].label)
          IN  IF out = Removed THEN rows = {}
              ELSE /\ Cardinality(rows) = 1
                   /\ \A j \in rows : result.rows[j].a = out

\* the text is "(d)" for a plain unsigned decimal number d
Parenthesised(s) ==
    /\ Len(s) >= 3
    /\ s[1] = "("
    /\ s[Len(s)] = ")"
    /\ IsNumeral(SubSeq(s, 2, Len(s) - 1))
    /\ s[2] # "-"

\* the number d of a text "(d)"
Inside(s) == NumeralValue(SubSeq(s, 2, Len(s) - 1))

\* C29: for every cell "(d)" with d a plain unsigned decimal number,
\* standard mode (the text being no key of cast_non_numeric) keeps the row
\* and yields +d, accounting mode yields -d, and for d # 0 the two differ;
\* a one-row table holding such a cell is converted without error in both
\* modes.
C29_ParenthesesNotNegated ==
    (Done /\ col_name = TargetColumn)
    => \A i \in 1..Len(input) :
          (IsStr(input[i].a) /\ Parenthesised(input[i].a.s))
          => LET d == Inside(input[i].a.s)
                 minus == Normal(0 - d.m, d.e)
                 standard == type # "accounting"
                             /\ input[i].a.s \notin CastKeys(cast_non_numeric)
             IN  /\ _clean_accounting_column(input[i].a) = minus
                 /\ (type = "accounting" /\ result.t = "DataFrame")
                       => result.rows[i].a = minus
                 /\ (standard /\ result.t = "DataFrame")
                       => /\ RowsAt(result.rows, input[i].label) # {}
                          /\ \A j \in RowsAt(result.rows, input[i].label) :
                                /\ result.rows[j].a = d
                                /\ d.m # 0 => result.rows[j].a # minus
                 /\ (Len(input) = 1
                     /\ \/ type = "accounting"
                        \/ /\ standard
                           /\ CastAccepted
                           /\ TypeName(fill_all_non_numeric)
                                 \in {"NoneType", "int", "float"})
                       => result.t = "DataFrame"

C29_Witness ==
    /\ StandardReturned
    /\ input = Table(<<PyStr(<<"(", "2", ")">>)>>)
    /\ result.rows[1].a = PyFloat(2, 0)
    /\ _clean_accounting_column(input[1].a) = PyFloat(-2, 0)

----------------------------------------------------------------------------
(* The tables of the other functions.  A frame holds the column names in   *)
(* their order, the row labels, and for every column position its cells in *)
(* row order.  A column name is the sequence of its characters.            *)

Frame(columns, index, data) ==
    [t |-> "DataFrame", columns |-> columns, index |-> index, data |-> data]

\* df.shape[0]
NRows(f) == Len(f.index)

\* x in seq
InSeq(x, seq) == \E i \in 1..Len(seq) : seq[i] = x

PyTuple(items) == [t |-> "tuple", s |-> items, m |-> 0, e |-> 0]
\* range(n)
PyRange(n) == [t |-> "range", s |-> [i \in 1..n |-> PyInt(i - 1)], m |-> 0,
               e |-> 0]
\* pd.Index(items)
PyIndex(items) == [t |-> "Index", s |-> items, m |-> 0, e |-> 0]

\* the default labels 0, 1, ..., n - 1
RangeIndex(n) == [i \in 1..n |-> i - 1]

\* the variables of currency_column_to_numeric
currency == <<caller_df, args, df, column_series, pc, result, input>>

\* currency_column_to_numeric is not being called
Idle ==
    /\ caller_df = <<>>
    /\ input = <<>>
    /\ df = <<>>
    /\ col_name = PyNone
    /\ type = "None"
    /\ cast_non_numeric = PyNone
    /\ fill_all_non_numeric = PyNone
    /\ remove_non_numeric = FALSE
    /\ column_series = <<>>
    /\ pc = "done"
    /\ result = Pending

\* the state in which the call c of another function begins
BeginCall(c) ==
    /\ Idle
    /\ frame = c.df
    /\ call = c
    /\ returned = Pending

\* the call ends: the caller's table is f, and r is returned or raised
Return(f, r) ==
    /\ frame' = f
    /\ returned' = r
    /\ UNCHANGED <<call, currency>>

----------------------------------------------------------------------------
(* add_column.                                                             *)

\* most rows of an enumerated frame of add_column
MaxFrameRows == 3

\* hasattr(value, "__len__") and not isinstance(value, (str, bytes,
\* bytearray))
ListLike(value) == value.t \in {"list", "tuple", "range"}

\* the repetitions rounded down
times_to_loop_floor(nrows, len_value) == nrows \div len_value

\* int(np.ceil(nrows / len_value))
times_to_loop(nrows, len_value) == (nrows + len_value - 1) \div len_value

\* list(value) * n
RECURSIVE Times(_, _)
Times(items, n) == IF n <= 0 THEN <<>> ELSE items \o Times(items, n - 1)

\* df[col_name] = values for a list of values: a new last column, or
\* ValueError when the length is not the number of rows
SetColumn(f, name, values) ==
    IF Len(values) # NRows(f) THEN Raise("ValueError", <<"Length">>)
    ELSE Frame(Append(f.columns, name), f.index, Append(f.data, values))

\* df[col_name] = value for a scalar: the value in every row
SetColumnScalar(f, name, value) ==
    Frame(Append(f.columns, name), f.index,
          Append(f.data, [i \in 1..NRows(f) |-> value]))

\* add_column(df, col_name, value, fill_remaining): the exception raised, or
\* the table, which is df itself with the column added
add_column(f, name, value, fill_remaining) ==
    IF Raised(check(<<"col_name">>, name, {"str"}))
    THEN check(<<"col_name">>, name, {"str"})
    ELSE IF InSeq(name.s, f.columns) THEN Raise("ValueError", name.s)
    ELSE IF ListLike(value) /\ Len(value.s) > NRows(f)
    THEN Raise("ValueError", <<"more elements">>)
    ELSE IF ListLike(value) /\ Len(value.s) # NRows(f) /\ ~fill_remaining
    THEN Raise("ValueError", <<"not equal">>)
    ELSE IF ListLike(value) /\ Len(value.s) = 0
    THEN Raise("ValueError", <<"minimum length 1">>)
    ELSE IF fill_remaining
    THEN LET items == IF ListLike(value) THEN value.s ELSE <<value>>
             len_value == Len(items)
             fill_values == Times(items, times_to_loop(NRows(f), len_value))
         IN  SetColumn(f, name.s,
                       SubSeq(fill_values, 1,
                              IF Len(fill_values) < NRows(f)
                              THEN Len(fill_values) ELSE NRows(f)))
    ELSE IF ListLike(value) THEN SetColumn(f, name.s, value.s)
    ELSE SetColumnScalar(f, name.s, value)

\* the frame of the docstring's setup cut to n rows: column "a" is
\* [1, 2, 3] * 3
AddColumnFrame(n) ==
    Frame(<<<<"a">>>>, RangeIndex(n),
          <<[i \in 1..n |-> PyInt(((i - 1) % 3) + 1)]>>)

Cambridge == <<"C", "a", "m", "b", "r", "i", "d", "g", "e">>

\* the values added: every list of at most MaxFrameRows + 1 items, a tuple,
\* range(3) of the docstring, and scalars (a number, a str, None)
AddColumnValues ==
    {PyList(items) :
        items \in UNION {[1..k -> {PyInt(1), PyInt(2)}] :
                            k \in 0..(MaxFrameRows + 1)}}
    \cup {PyTuple(<<PyInt(1), PyInt(2)>>), PyRange(3), PyInt(100000),
          PyStr(Cambridge), PyNone}

\* a new name, the name of a column of the frame, and a name that is no str
AddColumnNames == {PyStr(<<"n">>), PyStr(<<"a">>), PyInt(5)}

AddColumnInit ==
    \E n \in (0..MaxFrameRows) \cup {9}, name \in AddColumnNames,
       value \in AddColumnValues, fill_remaining \in BOOLEAN :
        BeginCall([fn |-> "add_column", df |-> AddColumnFrame(n),
                   col_name |-> name, value |-> value,
                   fill_remaining |-> fill_remaining])

AddColumn ==
    /\ call.fn = "add_column"
    /\ returned = Pending
    /\ LET r == add_column(frame, call.col_name, call.value,
                           call.fill_remaining)
       IN  IF Raised(r) THEN Return(frame, r) ELSE Return(r, r)

AddColumnNext == AddColumn

AddColumnSpec == AddColumnInit /\ [][AddColumnNext]_vars

\* the cells of the last column of a frame
LastColumn(f) == f.data[Len(f.data)]

\* C21: add_column with fill_remaining=True, a new str column name and a
\* list-like value of length L, 1 <= L <= number of rows, returns the table
\* with the new column last, holding value[i mod L] in the row at position
\* i (counted from 0); with a scalar value it holds the scalar in every
\* row; range(3) on nine rows gives 0, 1, 2, 0, 1, 2, 0, 1, 2.
C21_FillRemainingRecycles ==
    (/\ call.fn = "add_column"
     /\ returned # Pending
     /\ IsStr(call.col_name)
     /\ ~InSeq(call.col_name.s, call.df.columns)
     /\ call.fill_remaining)
    => LET L == Len(call.value.s)
           n == NRows(call.df)
       IN  /\ (ListLike(call.value) /\ 1 <= L /\ L <= n)
              => /\ returned.t = "DataFrame"
                 /\ returned.columns = Append(call.df.columns, call.col_name.s)
                 /\ returned.index = call.df.index
                 /\ Len(LastColumn(returned)) = n
                 /\ \A i \in 0..(n - 1) :
                       LastColumn(returned)[i + 1] = call.value.s[(i % L) + 1]
           /\ ~ListLike(call.value)
              => /\ returned.t = "DataFrame"
                 /\ returned.columns = Append(call.df.columns, call.col_name.s)
                 /\ Len(LastColumn(returned)) = n
                 /\ \A i \in 1..n : LastColumn(returned)[i] = call.value
           /\ (call.value = PyRange(3) /\ n = 9)
              => LastColumn(returned) =
                    <<PyInt(0), PyInt(1), PyInt(2), PyInt(0), PyInt(1),
                      PyInt(2), PyInt(0), PyInt(1), PyInt(2)>>

C21_Witness ==
    /\ call.fn = "add_column"
    /\ call.fill_remaining
    /\ call.value = PyList(<<PyInt(1), PyInt(2)>>)
    /\ NRows(call.df) = 3
    /\ returned.t = "DataFrame"
    /\ LastColumn(returned) = <<PyInt(1), PyInt(2), PyInt(1)>>

----------------------------------------------------------------------------
(* reorder_columns.                                                        *)

\* most columns of an enumerated frame
MaxColumns == 3

\* the position of a column name in the column names
Position(columns, name) ==
    CHOOSE i \in 1..Len(columns) :
        columns[i] = name /\ \A j \in 1..(i - 1) : columns[j] # name

\* df.reindex(columns=columns, copy=False) of a frame whose column names
\* are distinct: a new frame with the named columns in the order given; a
\* name that is no column gives a column of missing values
reindex(f, columns) ==
    Frame(columns, f.index,
          [c \in 1..Len(columns) |->
              IF InSeq(columns[c], f.columns)
              THEN f.data[Position(f.columns, columns[c])]
              ELSE [i \in 1..NRows(f) |-> NaN]])

\* reorder_columns with the columns that are not named put first
reorder_columns_rest_first(f, column_order) ==
    IF Raised(check(<<"column_order">>, column_order, {"list", "Index"}))
    THEN check(<<"column_order">>, column_order, {"list", "Index"})
    ELSE IF \E i \in 1..Len(column_order.s) :
                ~InSeq(column_order.s[i], f.columns)
    THEN Raise("IndexError", <<"column_order">>)
    ELSE reindex(f, SelectSeq(f.columns,
                              LAMBDA col : ~InSeq(col, column_order.s))
                    \o column_order.s)

\* reorder_columns(df, column_order): the exception raised, or the new
\* table
reorder_columns(f, column_order) ==
    IF Raised(check(<<"column_order">>, column_order, {"list", "Index"}))
    THEN check(<<"column_order">>, column_order, {"list", "Index"})
    ELSE IF \E i \in 1..Len(column_order.s) :
                ~InSeq(column_order.s[i], f.columns)
    THEN Raise("IndexError", <<"column_order">>)
    ELSE reindex(f, column_order.s
                    \o SelectSeq(f.columns,
                                 LAMBDA col : ~InSeq(col, column_order.s)))

\* the names columns are given
Letters == <<"a", "b", "c", "d", "e">>
ColumnNames == {<<Letters[i]>> : i \in 1..MaxColumns}

\* the sequences of at most n elements of a set, and those without a
\* repeated element
SeqsUpTo(S, n) == UNION {[1..k -> S] : k \in 0..n}
NoRepeat(seq) == \A i, j \in 1..Len(seq) : seq[i] = seq[j] => i = j

\* a frame of one row with these column names: the cell of the column at
\* position c is c
OneRowFrame(columns) ==
    Frame(columns, RangeIndex(1), [c \in 1..Len(columns) |-> <<PyInt(c)>>])

\* the frames with at most MaxColumns columns of distinct names
ReorderFrames ==
    {OneRowFrame(columns) :
        columns \in {s \in SeqsUpTo(ColumnNames, MaxColumns) : NoRepeat(s)}}

\* column_order: every list and every pd.Index of at most MaxColumns names,
\* repeated names and a name that is no column among them, a tuple and
\* None
ColumnOrders ==
    LET orders == SeqsUpTo(ColumnNames \cup {<<"z">>}, MaxColumns)
    IN  {PyList(o) : o \in orders} \cup {PyIndex(o) : o \in orders}
        \cup {PyTuple(<<>>), PyNone}

ReorderColumnsInit ==
    \E f \in ReorderFrames, column_order \in ColumnOrders :
        BeginCall([fn |-> "reorder_columns", df |-> f,
                   column_order |-> column_order])

\* reorder_columns returns a new table and leaves df as it is
ReorderColumns ==
    /\ call.fn = "reorder_columns"
    /\ returned = Pending
    /\ Return(frame, reorder_columns(frame, call.column_order))

ReorderColumnsNext == ReorderColumns

ReorderColumnsSpec == ReorderColumnsInit /\ [][ReorderColumnsNext]_vars

\* C22: reorder_columns, given a list or pd.Index of names that are all
\* columns, returns a table whose columns are the names of column_order in
\* the order given, followed by every column not named in column_order in
\* its original relative order, each column with its own cells; when
\* column_order has no repeated name the result holds exactly the original
\* columns, each once.
C22_ColumnOrder ==
    (call.fn = "reorder_columns" /\ returned # Pending)
    => LET order == call.column_order.s
           orig == call.df.columns
       IN  /\ (/\ call.column_order.t \in {"list", "Index"}
               /\ \A i \in 1..Len(order) : InSeq(order[i], orig))
              => returned.t = "DataFrame"
           /\ returned.t = "DataFrame"
              => LET out == returned.columns
                 IN  /\ SubSeq(out, 1, Len(order)) = order
                     /\ SubSeq(out, Len(order) + 1, Len(out)) =
                           SelectSeq(orig, LAMBDA c : ~InSeq(c, order))
                     /\ \A c \in 1..Len(out) :
                           returned.data[c] =
                               call.df.data[Position(orig, out[c])]
                     /\ NoRepeat(order)
                           => /\ Len(out) = Len(orig)
                              /\ \A i \in 1..Len(orig) :
                                    Cardinality({c \in 1..Len(out) :
                                                    out[c] = orig[i]}) = 1

C22_Witness ==
    /\ call.fn = "reorder_columns"
    /\ call.df.columns = <<<<"a">>, <<"b">>, <<"c">>>>
    /\ call.column_order = PyList(<<<<"c">>, <<"b">>>>)
    /\ returned.t = "DataFrame"
    /\ returned.columns = <<<<"c">>, <<"b">>, <<"a">>>>
    /\ returned.data = <<<<PyInt(3)>>, <<PyInt(2)>>, <<PyInt(1)>>>>

----------------------------------------------------------------------------
(* limit_column_characters.                                                *)

\* longest enumerated column name
MaxNameLen == 3

\* s[:n]; a negative n counts from the end
Slice(s, n) ==
    IF n >= 0 THEN SubSeq(s, 1, IF n < Len(s) THEN n ELSE Len(s))
    ELSE SubSeq(s, 1, IF Len(s) + n > 0 THEN Len(s) + n ELSE 0)

\* str(k) of a natural number k
RECURSIVE str(_)
str(k) ==
    LET digit(d) == CHOOSE c \in Digits : DigitValue(c) = d
    IN  IF k < 10 THEN <<digit(k)>>
        ELSE str(k \div 10) \o <<digit(k % 10)>>

\* the count with the column itself counted
col_name_count_inclusive(col_names, idx) ==
    Cardinality({j \in 1..idx : col_names[j] = col_names[idx]})

\* col_name_count[idx] once the loops are over: how many columns before
\* position idx have the name of the column at idx
col_name_count(col_names, idx) ==
    Cardinality({j \in 1..(idx - 1) : col_names[j] = col_names[idx]})

\* the final name without the count
final_col_name_bare(name, col_separator, count) == name

\* the name appended to final_col_names
final_col_name(name, col_separator, count) ==
    IF count > 0 THEN name \o col_separator \o str(count) ELSE name

\* limit_column_characters(df, column_length, col_separator): the exception
\* raised, or the table, which is df itself with its columns renamed
limit_column_characters(f, column_length, col_separator) ==
    IF Raised(check(<<"column_length">>, column_length, {"int"}))
    THEN check(<<"column_length">>, column_length, {"int"})
    ELSE IF Raised(check(<<"col_separator">>, col_separator, {"str"}))
    THEN check(<<"col_separator">>, col_separator, {"str"})
    ELSE LET col_names ==
                 [c \in 1..Len(f.columns) |->
                     Slice(f.columns[c], column_length.m)]
             col_name_set == {col_names[c] : c \in 1..Len(col_names)}
         IN  IF Cardinality(col_name_set) = Len(col_names)
             THEN Frame(col_names, f.index, f.data)
             ELSE Frame([idx \in 1..Len(col_names) |->
                            final_col_name(col_names[idx], col_separator.s,
                                           col_name_count(col_names, idx))],
                        f.index, f.data)

\* the characters of enumerated column names, and every name of at most
\* MaxNameLen of them
NameAlphabet == {"a", "_", "1"}
NameTexts == UNION {[1..k -> NameAlphabet] : k \in 0..MaxNameLen}

\* names that share prefixes with each other and with suffixed names
PrefixNames ==
    {<<"a">>, <<"a", "b">>, <<"a", "c">>, <<"a", "_">>, <<"a", "_", "1">>,
     <<"a", "1">>}

\* the column names of the docstring's example
DocNames ==
    <<<<"r", "e", "a", "l", "l", "y", "_", "l", "o", "n", "g", "_", "n",
        "a", "m", "e", "_", "f", "o", "r", "_", "a", "_", "c", "o", "l", "u",
        "m", "n">>,
      <<"a", "n", "o", "t", "h", "e", "r", "_", "r", "e", "a", "l", "l",
        "y", "_", "l", "o", "n", "g", "_", "n", "a", "m", "e", "_", "f", "o",
        "r", "_", "a", "_", "c", "o", "l", "u", "m", "n">>,
      <<"a", "n", "o", "t", "h", "e", "r", "_", "r", "e", "a", "l", "l",
        "y", "_", "l", "o", "n", "g", "e", "r", "_", "n", "a", "m", "e", "_",
        "f", "o", "r", "_", "a", "_", "c", "o", "l", "u", "m", "n">>,
      <<"t", "h", "i", "s", "_", "i", "s", "_", "g", "e", "t", "t", "i",
        "n", "g", "_", "o", "u", "t", "_", "o", "f", "_", "h", "a", "n", "d">>>>

\* the frames renamed: every pair of enumerated names, at most MaxColumns
\* of the prefix-sharing names, and the docstring's example
LimitFrames ==
    {OneRowFrame(<<x, y>>) : x, y \in NameTexts}
    \cup {OneRowFrame(columns) : columns \in SeqsUpTo(PrefixNames, MaxColumns)}
    \cup {OneRowFrame(DocNames)}

\* column_length: -1 to MaxNameLen + 1, the docstring's 7, and a float
ColumnLengths ==
    {PyInt(n) : n \in (-1..(MaxNameLen + 1)) \cup {7}} \cup {PyFloat(2, 0)}

\* col_separator: the default, the empty string, a digit, the docstring's
\* ".", and a value that is no str
ColSeparators ==
    {PyStr(<<"_">>), PyStr(<<>>), PyStr(<<"1">>), PyStr(<<".">>), PyInt(1)}

LimitColumnCharactersInit ==
    \E f \in LimitFrames, column_length \in ColumnLengths,
       col_separator \in ColSeparators :
        BeginCall([fn |-> "limit_column_characters", df |-> f,
                   column_length |-> column_length,
                   col_separator |-> col_separator])

LimitColumnCharacters ==
    /\ call.fn = "limit_column_characters"
    /\ returned = Pending
    /\ LET r == limit_column_characters(frame, call.column_length,
                                        call.col_separator)
       IN  IF Raised(r) THEN Return(frame, r) ELSE Return(r, r)

LimitColumnCharactersNext == LimitColumnCharacters

LimitColumnCharactersSpec ==
    LimitColumnCharactersInit /\ [][LimitColumnCharactersNext]_vars

\* the first n characters of a name, for n >= 0
First(n, name) ==
    [i \in 1..(IF n < Len(name) THEN n ELSE Len(name)) |-> name[i]]

\* C23: limit_column_characters with an int length n >= 0 and a str
\* separator returns the table with the column at each position renamed to
\* the first n characters of its name, unchanged for the first column (left
\* to right) with that truncated name and followed by the separator and k
\* for the (k+1)-th one (k >= 1); the number and positions of the columns,
\* the row labels and the cells are unchanged; the docstring's example with
\* n = 7 gives really_, another, another_1, this_is.
C23_TruncatedNames ==
    (/\ call.fn = "limit_column_characters"
     /\ returned # Pending
     /\ IsInt(call.column_length)
     /\ call.column_length.m >= 0
     /\ IsStr(call.col_separator))
    => LET n == call.column_length.m
           sep == call.col_separator.s
           orig == call.df.columns
           k(c) == Cardinality({j \in 1..(c - 1) :
                                   First(n, orig[j]) = First(n, orig[c])})
       IN  /\ returned.t = "DataFrame"
           /\ frame = returned
           /\ Len(returned.columns) = Len(orig)
           /\ returned.index = call.df.index
           /\ returned.data = call.df.data
           /\ \A c \in 1..Len(orig) :
                 returned.columns[c] =
                     IF k(c) = 0 THEN First(n, orig[c])
                     ELSE First(n, orig[c]) \o sep \o str(k(c))
           /\ (orig = DocNames /\ n = 7 /\ sep = <<"_">>)
              => returned.columns =
                    <<<<"r", "e", "a", "l", "l", "y", "_">>,
                      <<"a", "n", "o", "t", "h", "e", "r">>,
                      <<"a", "n", "o", "t", "h", "e", "r", "_", "1">>,
                      <<"t", "h", "i", "s", "_", "i", "s">>>>

C23_Witness ==
    /\ call.fn = "limit_column_characters"
    /\ call.df.columns = <<<<"a", "b">>, <<"a", "c">>, <<"a", "_">>>>
    /\ call.column_length = PyInt(1)
    /\ call.col_separator = PyStr(<<"_">>)
    /\ returned.t = "DataFrame"
    /\ returned.columns = <<<<"a">>, <<"a", "_", "1">>, <<"a", "_", "2">>>>

\* C30: when the column names of the input are pairwise distinct, the
\* column names after limit_column_characters(n, sep) are pairwise
\* distinct, for every int n >= 1 and every str separator, the empty
\* string included.
C30_DistinctNamesStayDistinct ==
    (/\ call.fn = "limit_column_characters"
     /\ returned # Pending
     /\ IsInt(call.column_length)
     /\ call.column_length.m >= 1
     /\ IsStr(call.col_separator)
     /\ NoRepeat(call.df.columns))
    => /\ returned.t = "DataFrame"
       /\ NoRepeat(returned.columns)

C30_Witness ==
    /\ call.fn = "limit_column_characters"
    /\ call.df.columns = <<<<"a", "b">>, <<"a", "c">>, <<"a", "1">>>>
    /\ call.column_length = PyInt(1)
    /\ call.col_separator = PyStr(<<>>)
    /\ returned.t = "DataFrame"
    /\ returned.columns = <<<<"a">>, <<"a", "1">>, <<"a", "2">>>>

----------------------------------------------------------------------------
(* filter_date.                                                            *)

AMOUNT == <<"A", "M", "O", "U", "N", "T">>
DATE == <<"D", "A", "T", "E">>

\* a pandas Timestamp of a date
Timestamp(year, month, day) ==
    [t |-> "Timestamp", year |-> year, month |-> month, day |-> day]

\* a number that orders Timestamps as they are ordered in time
Ordinal(ts) == ts.year * 10000 + ts.month * 100 + ts.day

\* the text "mm/dd/yy" of a date
DateText(month, day, yy) ==
    LET digit(d) == CHOOSE c \in Digits : DigitValue(c) = d
    IN  <<digit(month \div 10), digit(month % 10), "/",
          digit(day \div 10), digit(day % 10), "/",
          digit(yy \div 10), digit(yy % 10)>>

\* pd.to_datetime of one value without format: a Timestamp stays, a text
\* "mm/dd/yy" is parsed month first with the two-digit year read in the
\* current century window, any other text raises ValueError
to_datetime(v) ==
    IF v.t = "Timestamp" THEN v
    ELSE IF /\ IsStr(v)
            /\ Len(v.s) = 8
            /\ v.s[3] = "/" /\ v.s[6] = "/"
            /\ \A i \in {1, 2, 4, 5, 7, 8} : v.s[i] \in Digits
            /\ DigitsValue(SubSeq(v.s, 1, 2)) \in 1..12
            /\ DigitsValue(SubSeq(v.s, 4, 5)) \in 1..31
    THEN LET yy == DigitsValue(SubSeq(v.s, 7, 8))
         IN  Timestamp(IF yy < 69 THEN 2000 + yy ELSE 1900 + yy,
                       DigitsValue(SubSeq(v.s, 1, 2)),
                       DigitsValue(SubSeq(v.s, 4, 5)))
    ELSE Raise("ValueError", v.s)

\* the rows of a frame at the positions kept, in their order
LocRows(f, keep) ==
    LET positions == SelectSeq([i \in 1..NRows(f) |-> i],
                               LAMBDA i : i \in keep)
    IN  Frame(f.columns,
              [r \in 1..Len(positions) |-> f.index[positions[r]]],
              [c \in 1..Len(f.columns) |->
                  [r \in 1..Len(positions) |-> f.data[c][positions[r]]]])

\* Series.isin(values)
isin(x, values) == \E i \in 1..Len(values.s) : values.s[i] = PyInt(x)

\* a boolean Series, as the positions at which it is True
Mask(keep) == [t |-> "Series", keep |-> keep]

\* _date_filter_conditions(conditions): reduce(np.logical_and, conditions);
\* reduce() of an empty sequence without initial value raises TypeError
_date_filter_conditions(conditions) ==
    IF conditions = <<>> THEN Raise("TypeError", <<"reduce">>)
    ELSE Mask({i \in conditions[1].keep :
                  \A k \in 1..Len(conditions) : i \in conditions[k].keep})

\* filter_date(df, column, start, end, years, months, days) with
\* column_date_options and format unset: df as the call leaves it, and the
\* exception raised or the table returned
filter_date(f, column, start, end, years, months, days) ==
    IF Raised(check(<<"column">>, column, {"str"}))
    THEN [df |-> f, out |-> check(<<"column">>, column, {"str"})]
    ELSE IF ~InSeq(column.s, f.columns)
    THEN [df |-> f, out |-> Raise("KeyError", column.s)]
    ELSE LET c == Position(f.columns, column.s)
             rows == 1..NRows(f)
             dates == [i \in rows |-> to_datetime(f.data[c][i])]
             bad == {i \in rows : Raised(dates[i])}
             cast == Frame(f.columns, f.index, [f.data EXCEPT ![c] = dates])
             start_date == to_datetime(start)
             end_date == to_datetime(end)
             _filter_list ==
                 (IF Truthy(start)
                  THEN <<Mask({i \in rows :
                             Ordinal(dates[i]) >= Ordinal(start_date)})>>
                  ELSE <<>>)
                 \o (IF Truthy(end)
                     THEN <<Mask({i \in rows :
                                Ordinal(dates[i]) <= Ordinal(end_date)})>>
                     ELSE <<>>)
                 \o (IF Truthy(years)
                     THEN <<Mask({i \in rows : isin(dates[i].year, years)})>>
                     ELSE <<>>)
                 \o (IF Truthy(months)
                     THEN <<Mask({i \in rows : isin(dates[i].month, months)})>>
                     ELSE <<>>)
                 \o (IF Truthy(days)
                     THEN <<Mask({i \in rows : isin(dates[i].day, days)})>>
                     ELSE <<>>)
             mask == _date_filter_conditions(_filter_list)
         IN  IF bad # {}
             THEN [df |-> f,
                   out |-> dates[CHOOSE i \in bad : \A j \in bad : i <= j]]
             ELSE IF Truthy(start) /\ Raised(start_date)
             THEN [df |-> cast, out |-> start_date]
             ELSE IF Truthy(end) /\ Raised(end_date)
             THEN [df |-> cast, out |-> end_date]
             ELSE IF Raised(mask) THEN [df |-> cast, out |-> mask]
             ELSE [df |-> cast, out |-> LocRows(cast, mask.keep)]

\* the dates of the docstring's example setup
date_list ==
    <<DateText(1, 28, 19), DateText(1, 29, 19), DateText(1, 30, 19),
      DateText(1, 31, 19), DateText(2, 1, 19), DateText(2, 2, 19),
      DateText(2, 3, 19), DateText(2, 4, 19), DateText(2, 5, 19),
      DateText(2, 6, 19), DateText(2, 7, 20), DateText(2, 8, 20),
      DateText(2, 9, 20), DateText(2, 10, 20), DateText(2, 11, 20),
      DateText(2, 12, 20), DateText(2, 7, 20), DateText(2, 8, 20),
      DateText(2, 9, 20), DateText(2, 10, 20), DateText(2, 11, 20),
      DateText(2, 12, 20), DateText(3, 8, 20), DateText(3, 9, 20),
      DateText(3, 10, 20), DateText(3, 11, 20), DateText(3, 12, 20)>>

\* example_dataframe of the docstring
DateFrame(texts) ==
    Frame(<<AMOUNT, DATE>>, RangeIndex(Len(texts)),
          <<[i \in 1..Len(texts) |-> PyInt(i)],
            [i \in 1..Len(texts) |-> PyStr(texts[i])]>>)

\* the dates enumerated frames are made of
Calendar ==
    {DateText(1, 29, 19), DateText(1, 30, 19), DateText(2, 10, 20),
     DateText(3, 10, 20), DateText(3, 11, 20)}

\* every frame of at most MaxRows dates of the calendar, and the docstring's
DateFrames ==
    {DateFrame(texts) : texts \in SeqsUpTo(Calendar, MaxRows) \cup {date_list}}

\* start and end: unset or a date text
Starts == {PyNone, PyStr(DateText(1, 29, 19)), PyStr(DateText(2, 10, 20))}
Ends == {PyNone, PyStr(DateText(1, 30, 19)), PyStr(DateText(3, 10, 20))}

\* years, months, days: unset or a list, the empty list among them
YearLists ==
    {PyNone, PyList(<<>>), PyList(<<PyInt(2019)>>), PyList(<<PyInt(2020)>>),
     PyList(<<PyInt(2019), PyInt(2020)>>)}
MonthLists == {PyNone, PyList(<<PyInt(3)>>), PyList(<<PyInt(1), PyInt(2)>>)}
DayLists == {PyNone, PyList(<<PyInt(10), PyInt(11)>>), PyList(<<PyInt(29)>>)}

\* column: the date column, a name that is no column, a name that is no str
DateColumnNames == {PyStr(DATE), PyStr(<<"z">>), PyInt(5)}

FilterDateInit ==
    \E f \in DateFrames, column \in DateColumnNames, start \in Starts,
       end \in Ends, years \in YearLists, months \in MonthLists,
       days \in DayLists :
        BeginCall([fn |-> "filter_date", df |-> f, column |-> column,
                   start |-> start, end |-> end, years |-> years,
                   months |-> months, days |-> days])

\* filter_date casts the column of df in place and returns a selection
FilterDate ==
    /\ call.fn = "filter_date"
    /\ returned = Pending
    /\ LET r == filter_date(frame, call.column, call.start, call.end,
                            call.years, call.months, call.days)
       IN  Return(r.df, r.out)

FilterDateNext == FilterDate

FilterDateSpec == FilterDateInit /\ [][FilterDateNext]_vars

\* the rows of the input whose date satisfies every criterion that was
\* supplied (a criterion left at None is not supplied)
Satisfying ==
    LET c == Position(call.df.columns, DATE)
        date(i) == to_datetime(call.df.data[c][i])
    IN  {i \in 1..NRows(call.df) :
            /\ call.start # PyNone
                  => Ordinal(date(i)) >= Ordinal(to_datetime(call.start))
            /\ call.end # PyNone
                  => Ordinal(date(i)) <= Ordinal(to_datetime(call.end))
            /\ call.years # PyNone => isin(date(i).year, call.years)
            /\ call.months # PyNone => isin(date(i).month, call.months)
            /\ call.days # PyNone => isin(date(i).day, call.days)}

\* the labels of the rows at a set of positions, in row order
LabelsAt(f, keep) ==
    LET positions == SelectSeq([i \in 1..NRows(f) |-> i],
                               LAMBDA i : i \in keep)
    IN  [r \in 1..Len(positions) |-> f.index[positions[r]]]

\* C24: filter_date on the date column returns, in their original order,
\* exactly the rows whose date satisfies every criterion that was supplied:
\* date >= start, date <= end, year in years, month in months, day in days;
\* a criterion that is not supplied does not restrict the result.
C24_RowsSatisfyingAllCriteria ==
    (/\ call.fn = "filter_date"
     /\ returned # Pending
     /\ call.column = PyStr(DATE))
    => /\ returned.t = "DataFrame"
       /\ returned.index = LabelsAt(call.df, Satisfying)
       /\ returned.data[1] =
             [r \in 1..Len(returned.index) |-> PyInt(returned.index[r] + 1)]

============================================================================
